---- MODULE Spec2Model ----
(***************************************************************************)
(* A model of the Li Chao tree of src/src/lib.rs: the Line value type, the *)
(* construction of the tree, add_line and query, with the machine          *)
(* arithmetic of the source (i64 and usize) at a reduced width of Bits     *)
(* bits.  An arithmetic overflow of +, - or * panics when the build has    *)
(* overflow checks (debug profile) and wraps when it has none (release     *)
(* profile); the saturating operations clamp in both.                      *)
(***************************************************************************)
EXTENDS Integers, Sequences, FiniteSets, TLC

\* Width in bits of the signed (i64) and unsigned (usize) machine integers.
Bits == 5

\* Greatest number of lines a behaviour inserts.
MaxLines == 3

(***************************************************************************)
(* Machine integers.                                                       *)
(***************************************************************************)
I64_MAX == 2^(Bits - 1) - 1

I64_MIN == -(2^(Bits - 1))

USIZE_MAX == 2^Bits - 1

I64 == I64_MIN..I64_MAX

InI64(z) == I64_MIN <= z /\ z <= I64_MAX

InUsize(z) == 0 <= z /\ z <= USIZE_MAX

\* Two's complement wrap-around of a mathematical integer into i64.
WrapI64(z) == ((z - I64_MIN) % (2^Bits)) + I64_MIN

\* Wrap-around into usize; also the cast `as usize` of an i64.
WrapUsize(z) == z % (2^Bits)

Clamp(z) == IF z > I64_MAX THEN I64_MAX ELSE IF z < I64_MIN THEN I64_MIN ELSE z

saturating_mul(a, b) == Clamp(a * b)

saturating_add(a, b) == Clamp(a + b)

(***************************************************************************)
(* Line.                                                                   *)
(***************************************************************************)
Line(m, c) == [m |-> m, c |-> c]

Eval(line, x) == saturating_add(saturating_mul(line.m, x), line.c)

INF_VAL == I64_MAX

NO_LINE == [m |-> 0, c |-> INF_VAL]

(***************************************************************************)
(* LiChaoTree::new.  The result is a record: panic is "" when the call     *)
(* returns a tree, else the reason of the panic.                           *)
(***************************************************************************)
NoTree(why) == [panic |-> why, nodes |-> <<>>, x_min_coord |-> 0, domain_size |-> 0]

NewTree(x_min, x_max, checks) ==
    IF x_min > x_max THEN NoTree("range")
    ELSE IF checks /\ ~InI64(x_max - x_min) THEN NoTree("overflow")
    ELSE IF checks /\ ~InI64(WrapI64(x_max - x_min) + 1) THEN NoTree("overflow")
    ELSE LET size == WrapUsize(WrapI64(WrapI64(x_max - x_min) + 1))
         IN  IF size > USIZE_MAX \div 4 THEN NoTree("too large")
             ELSE [panic |-> "",
                   nodes |-> [i \in 1..(4 * size) |-> NO_LINE],
                   x_min_coord |-> x_min,
                   domain_size |-> size]

(***************************************************************************)
(* Index arithmetic shared by add_line_internal and query_internal.  Each  *)
(* value is what the wrapping operation yields; the matching ...Overflows  *)
(* predicate tells whether a build with overflow checks panics instead.    *)
(***************************************************************************)
get_x_coord_from_idx(x_min, index) == WrapI64(x_min + WrapI64(index))

XCoordOverflows(x_min, index) == ~InI64(x_min + WrapI64(index))

RangeMid(l, r) == WrapUsize(l + (WrapUsize(r - l) \div 2))

RangeMidOverflows(l, r) == ~InUsize(r - l) \/ ~InUsize(l + (WrapUsize(r - l) \div 2))

LeftChild(v) == WrapUsize(2 * v + 1)

RightChild(v) == WrapUsize(2 * v + 2)

LeftChildOverflows(v) == ~InUsize(2 * v + 1)

RightChildOverflows(v) == ~InUsize(2 * v + 2)

\* Faulty variant of IsLeaf: the descent never stops at a leaf.
NeverLeaf(l, r) == FALSE

IsLeaf(l, r) == l = r

\* `a.eval(x) < b.eval(x)`: a is strictly better than b at x.
BetterAt(a, b, x) == Eval(a, x) < Eval(b, x)

\* nodes[v] of the source: the Vec is indexed from 0, the sequence from 1.
NodeAt(nodes, v) == nodes[v + 1]

(***************************************************************************)
(* add_line_internal.  The result holds the node array as the call leaves  *)
(* it, the panic ("" when it returns) and the trace: one frame per call,   *)
(* outermost first.  A frame records the node, its range, the candidate    *)
(* the call received, the line stored at the node and the line carried     *)
(* downward after the midpoint comparison, and the step the call took.     *)
(***************************************************************************)
Frame(v, l, r, cand, stored, carried, step) ==
    [v |-> v, l |-> l, r |-> r, cand |-> cand, stored |-> stored,
     carried |-> carried, step |-> step]

AddResult(nodes, panic, trace) == [nodes |-> nodes, panic |-> panic, trace |-> trace]

RECURSIVE add_line_internal(_, _, _, _, _, _, _)
add_line_internal(nodes, x_min, checks, line_to_add, v, l, r) ==
    IF v >= Len(nodes)
    THEN AddResult(nodes, "Node array was too small",
                   <<Frame(v, l, r, line_to_add, NO_LINE, line_to_add, "panic_small")>>)
    ELSE IF checks /\ (RangeMidOverflows(l, r) \/ XCoordOverflows(x_min, l)
                       \/ XCoordOverflows(x_min, RangeMid(l, r))
                       \/ XCoordOverflows(x_min, r))
    THEN AddResult(nodes, "overflow",
                   <<Frame(v, l, r, line_to_add, NodeAt(nodes, v), line_to_add,
                           "panic_overflow")>>)
    ELSE
      LET m == RangeMid(l, r)
          x_at_l == get_x_coord_from_idx(x_min, l)
          x_at_m == get_x_coord_from_idx(x_min, m)
          x_at_r == get_x_coord_from_idx(x_min, r)
          is_new_line_better_at_mid == BetterAt(line_to_add, NodeAt(nodes, v), x_at_m)
          stored == IF is_new_line_better_at_mid THEN line_to_add ELSE NodeAt(nodes, v)
          carried == IF is_new_line_better_at_mid THEN NodeAt(nodes, v) ELSE line_to_add
          swapped == [nodes EXCEPT ![v + 1] = stored]
          here(step) == Frame(v, l, r, line_to_add, stored, carried, step)
      IN  IF carried = NO_LINE THEN AddResult(swapped, "", <<here("no_line")>>)
          ELSE IF IsLeaf(l, r) THEN AddResult(swapped, "", <<here("leaf")>>)
          ELSE IF BetterAt(carried, stored, x_at_l)
          THEN IF checks /\ LeftChildOverflows(v)
               THEN AddResult(swapped, "overflow", <<here("panic_overflow")>>)
               ELSE LET sub == add_line_internal(swapped, x_min, checks, carried,
                                                 LeftChild(v), l, m)
                    IN  AddResult(sub.nodes, sub.panic, <<here("left")>> \o sub.trace)
          ELSE IF BetterAt(carried, stored, x_at_r)
          THEN IF checks /\ (RightChildOverflows(v) \/ ~InUsize(m + 1))
               THEN AddResult(swapped, "overflow", <<here("panic_overflow")>>)
               ELSE LET sub == add_line_internal(swapped, x_min, checks, carried,
                                                 RightChild(v), WrapUsize(m + 1), r)
                    IN  AddResult(sub.nodes, sub.panic, <<here("right")>> \o sub.trace)
          ELSE AddResult(swapped, "", <<here("prune")>>)

(***************************************************************************)
(* add_line.                                                               *)
(***************************************************************************)
add_line(nodes, x_min, size, checks, line) ==
    IF line = NO_LINE
    THEN AddResult(nodes, "Line added is the internal representation for NO_LINE", <<>>)
    ELSE IF checks /\ ~InUsize(size - 1) THEN AddResult(nodes, "overflow", <<>>)
    ELSE add_line_internal(nodes, x_min, checks, line, 0, 0, WrapUsize(size - 1))

(***************************************************************************)
(* query_internal.  The result holds the value returned (meaningless when  *)
(* the call panics), the panic, whether the out-of-bounds return of        *)
(* INF_VAL was taken, and the trace: the nodes read, root first.           *)
(***************************************************************************)
QueryResult(val, panic, oob, trace) ==
    [val |-> val, panic |-> panic, oob |-> oob, trace |-> trace]

Min(a, b) == IF a <= b THEN a ELSE b

RECURSIVE query_internal(_, _, _, _, _, _, _)
query_internal(nodes, x_min, checks, v, l, r, query_idx) ==
    IF v >= Len(nodes) THEN QueryResult(INF_VAL, "", TRUE, <<>>)
    ELSE IF query_idx < l \/ query_idx > r
    THEN QueryResult(INF_VAL, "Recursive logic is bugged", FALSE, <<>>)
    ELSE IF checks /\ XCoordOverflows(x_min, query_idx)
    THEN QueryResult(INF_VAL, "overflow", FALSE, <<>>)
    ELSE
      LET min_val_at_query_x == Eval(NodeAt(nodes, v),
                                     get_x_coord_from_idx(x_min, query_idx))
          here == [v |-> v, l |-> l, r |-> r]
          m == RangeMid(l, r)
      IN  IF IsLeaf(l, r) THEN QueryResult(min_val_at_query_x, "", FALSE, <<here>>)
          ELSE IF checks /\ RangeMidOverflows(l, r)
          THEN QueryResult(INF_VAL, "overflow", FALSE, <<here>>)
          ELSE IF query_idx <= m
          THEN IF checks /\ LeftChildOverflows(v)
               THEN QueryResult(INF_VAL, "overflow", FALSE, <<here>>)
               ELSE LET sub == query_internal(nodes, x_min, checks, LeftChild(v), l, m,
                                              query_idx)
                    IN  QueryResult(Min(min_val_at_query_x, sub.val), sub.panic, sub.oob,
                                    <<here>> \o sub.trace)
          ELSE IF checks /\ (RightChildOverflows(v) \/ ~InUsize(m + 1))
               THEN QueryResult(INF_VAL, "overflow", FALSE, <<here>>)
               ELSE LET sub == query_internal(nodes, x_min, checks, RightChild(v),
                                              WrapUsize(m + 1), r, query_idx)
                    IN  QueryResult(Min(min_val_at_query_x, sub.val), sub.panic, sub.oob,
                                    <<here>> \o sub.trace)

(***************************************************************************)
(* query.  some is TRUE for Some(val), FALSE for None and for a panic.     *)
(***************************************************************************)
QueryPanic(why) == [some |-> FALSE, val |-> INF_VAL, panic |-> why, oob |-> FALSE,
                    trace |-> <<>>]

query(nodes, x_min, size, checks, x_coord) ==
    IF x_coord < x_min THEN QueryPanic("does not fit inside the tree's bounds")
    ELSE IF checks /\ ~InI64(x_min + WrapI64(size)) THEN QueryPanic("overflow")
    ELSE IF x_coord >= WrapI64(x_min + WrapI64(size))
    THEN QueryPanic("does not fit inside the tree's bounds")
    ELSE IF checks /\ (~InI64(x_coord - x_min) \/ ~InUsize(size - 1))
    THEN QueryPanic("overflow")
    ELSE LET query_idx == WrapUsize(WrapI64(x_coord - x_min))
             ret == query_internal(nodes, x_min, checks, 0, 0, WrapUsize(size - 1),
                                   query_idx)
         IN  [some |-> ret.panic = "" /\ ret.val # INF_VAL, val |-> ret.val,
              panic |-> ret.panic, oob |-> ret.oob, trace |-> ret.trace]

(***************************************************************************)
(* The state machine: one tree, built once, then any sequence of add_line  *)
(* and query calls.  overflow_checks is the build profile.  x_max_coord    *)
(* and inserted are history: the upper bound given to new, and the lines   *)
(* add_line has accepted, in order.  last describes the latest call.       *)
(***************************************************************************)
VARIABLES overflow_checks, built, nodes, x_min_coord, domain_size,
          x_max_coord, inserted, last

vars == <<overflow_checks, built, nodes, x_min_coord, domain_size,
          x_max_coord, inserted, last>>

\* Coordinates offered to new: the extremes of i64 and a few around zero.
XVals == {I64_MIN, -1, 0, 2, I64_MAX}

\* Lines offered to add_line: the sentinel, lines that never saturate on the
\* domains above, and lines whose evaluation saturates.
Lines == {NO_LINE, Line(0, 0), Line(1, 0), Line(-1, 0), Line(-1, 1),
          Line(-1, I64_MAX), Line(I64_MIN, I64_MAX)}

\* Coordinates offered to query: the domain, its two neighbours, the extremes.
QVals == {x \in I64 : \/ x \in {I64_MIN, I64_MAX}
                      \/ x_min_coord - 1 <= x /\ x <= x_max_coord + 1}

Call(op, x, y, line, panic, some, val, oob, trace) ==
    [op |-> op, x |-> x, y |-> y, line |-> line, panic |-> panic, some |-> some,
     val |-> val, oob |-> oob, trace |-> trace]

Init ==
    /\ overflow_checks \in BOOLEAN
    /\ built = FALSE
    /\ nodes = <<>>
    /\ x_min_coord = 0
    /\ domain_size = 0
    /\ x_max_coord = 0
    /\ inserted = <<>>
    /\ last = Call("none", 0, 0, NO_LINE, "", FALSE, 0, FALSE, <<>>)

New(x_min, x_max) ==
    /\ ~built
    /\ LET t == NewTree(x_min, x_max, overflow_checks)
       IN  /\ built' = (t.panic = "")
           /\ nodes' = t.nodes
           /\ x_min_coord' = t.x_min_coord
           /\ domain_size' = t.domain_size
           /\ x_max_coord' = IF t.panic = "" THEN x_max ELSE 0
           /\ last' = Call("new", x_min, x_max, NO_LINE, t.panic, FALSE, 0, FALSE, <<>>)
    /\ UNCHANGED <<overflow_checks, inserted>>

AddLine(line) ==
    /\ built
    /\ Len(inserted) < MaxLines
    /\ LET a == add_line(nodes, x_min_coord, domain_size, overflow_checks, line)
       IN  /\ nodes' = a.nodes
           /\ inserted' = IF a.panic = "" THEN Append(inserted, line) ELSE inserted
           /\ last' = Call("add_line", 0, 0, line, a.panic, FALSE, 0, FALSE, a.trace)
    /\ UNCHANGED <<overflow_checks, built, x_min_coord, domain_size, x_max_coord>>

Query(x_coord) ==
    /\ built
    /\ LET q == query(nodes, x_min_coord, domain_size, overflow_checks, x_coord)
       IN  last' = Call("query", x_coord, 0, NO_LINE, q.panic, q.some, q.val, q.oob,
                        q.trace)
    /\ UNCHANGED <<overflow_checks, built, nodes, x_min_coord, domain_size,
                   x_max_coord, inserted>>

Next ==
    \/ \E x_min \in XVals, x_max \in XVals : New(x_min, x_max)
    \/ \E line \in Lines : AddLine(line)
    \/ \E x_coord \in QVals : Query(x_coord)

Spec == Init /\ [][Next]_vars

(***************************************************************************)
(* Vocabulary of the properties.                                           *)
(***************************************************************************)
\* The coordinates new was asked to cover.
Domain == {x \in I64 : x_min_coord <= x /\ x <= x_max_coord}

\* The brute-force oracle: the least eval(x) over a sequence of lines.
RECURSIVE MinEval(_, _)
MinEval(ls, x) ==
    IF ls = <<>> THEN INF_VAL ELSE Min(Eval(Head(ls), x), MinEval(Tail(ls), x))

QueryOn(ns, x) == query(ns, x_min_coord, domain_size, overflow_checks, x)

\* What a caller of query observes at x: the panic, Some/None and the value.
Observed(ns, x) ==
    LET q == QueryOn(ns, x)
    IN  <<q.panic, q.some, IF q.some THEN q.val ELSE 0>>

\* The least stored eval(x) over the nodes of the root-to-leaf path of x.
RECURSIVE PathMin(_, _, _, _)
PathMin(v, l, r, x) ==
    IF v >= Len(nodes) THEN INF_VAL
    ELSE IF l >= r THEN Eval(NodeAt(nodes, v), x)
    ELSE LET m == l + ((r - l) \div 2)
         IN  IF x - x_min_coord <= m
             THEN Min(Eval(NodeAt(nodes, v), x), PathMin(2 * v + 1, l, m, x))
             ELSE Min(Eval(NodeAt(nodes, v), x), PathMin(2 * v + 2, m + 1, r, x))

\* The tree a sequence of add_line calls builds from the empty node array.
RECURSIVE Build(_, _)
Build(ns, ls) ==
    IF ls = <<>> THEN ns
    ELSE Build(add_line(ns, x_min_coord, domain_size, overflow_checks, Head(ls)).nodes,
               Tail(ls))

Orders(ls) ==
    {[i \in 1..Len(ls) |-> ls[p[i]]] :
        p \in {f \in [1..Len(ls) -> 1..Len(ls)] :
                  \A i, j \in 1..Len(ls) : i # j => f[i] # f[j]}}

RECURSIVE CeilLog2(_)
CeilLog2(n) == IF n <= 1 THEN 0 ELSE 1 + CeilLog2((n + 1) \div 2)

XAt(index) == get_x_coord_from_idx(x_min_coord, index)

\* The carried line of frame f is nowhere strictly better than the stored one
\* on the indices lo..hi.
NotBetterOn(f, lo, hi) ==
    \A index \in lo..hi : ~BetterAt(f.carried, f.stored, XAt(index))

(***************************************************************************)
(* The properties.                                                         *)
(***************************************************************************)

\* The tree is one that new built without wrap-around of the domain size.
WellFormed == built /\ domain_size = x_max_coord - x_min_coord + 1

\* C1: a query at a coordinate of the domain does not fail, returns None when
\* no line was inserted, and otherwise returns Some of the least eval(x)
\* over the inserted lines.  Stated where neither the construction (C6) nor
\* the bounds check of query (C5) is at fault, and where the least eval(x)
\* is below i64::MAX, the value that query reports as None.
C1_QueryMatchesOracle ==
    (WellFormed /\ x_max_coord < I64_MAX /\ last.op = "query" /\ last.x \in Domain) =>
        /\ last.panic = ""
        /\ inserted = <<>> => ~last.some
        /\ MinEval(inserted, last.x) < INF_VAL =>
               last.some /\ last.val = MinEval(inserted, last.x)

\* C2: lower-envelope invariant: at every coordinate of the domain the least
\* eval(x) over the inserted lines equals the least eval(x) over the lines
\* stored on the root-to-leaf path of x (a sentinel node contributes i64::MAX).
C2_LowerEnvelope ==
    built => \A x \in Domain :
                 MinEval(inserted, x) = PathMin(0, 0, domain_size - 1, x)

\* C3: insertion-order independence: the tree built from the empty node array
\* by any other order of the inserted lines answers every query of the domain
\* as the tree at hand does.
C3_OrderIndependent ==
    built => \A o \in Orders(inserted) : \A x \in Domain :
                 Observed(Build([i \in 1..Len(nodes) |-> NO_LINE], o), x)
                     = Observed(nodes, x)

\* C4: idempotence: adding once more a line that was already inserted leaves
\* the answer of every query of the domain unchanged.
C4_Idempotent ==
    built => \A i \in 1..Len(inserted) : \A x \in Domain :
                 Observed(Build(nodes, <<inserted[i]>>), x) = Observed(nodes, x)

\* C5: query fails iff the coordinate is below x_min_coord or above
\* x_max_coord, and a failing query has read no node.  Stated for the trees
\* new built without wrap-around of the domain size (C6).
C5_QueryFailsIffOutside ==
    (WellFormed /\ last.op = "query") =>
        /\ (last.panic # "") <=> (last.x < x_min_coord \/ last.x > x_max_coord)
        /\ last.panic # "" => last.trace = <<>>

\* C6: new fails when x_min_coord > x_max_coord or when 4 * domain_size is no
\* array length; otherwise it yields domain_size = x_max_coord - x_min_coord + 1
\* (no wrap-around), the given x_min_coord and 4 * domain_size sentinel nodes.
C6_NewContract ==
    last.op = "new" =>
        IF last.x > last.y \/ 4 * (last.y - last.x + 1) > USIZE_MAX
        THEN last.panic # "" /\ ~built
        ELSE /\ last.panic = "" /\ built
             /\ domain_size = last.y - last.x + 1
             /\ domain_size >= 1
             /\ x_min_coord = last.x
             /\ Len(nodes) = 4 * domain_size
             /\ \A i \in 1..Len(nodes) : nodes[i] = NO_LINE

\* C7: add_line fails exactly when the line is the sentinel, and then leaves
\* the node array, x_min_coord and domain_size unchanged.
C7_AddLineFailsIffSentinel ==
    [][last'.op = "add_line" =>
          /\ (last'.panic # "") <=> (last'.line = NO_LINE)
          /\ last'.panic # "" => UNCHANGED <<nodes, x_min_coord, domain_size>>]_vars

\* C8: the defensive checks are unreachable: in every add_line of a
\* non-sentinel line and every query inside the domain each call has
\* v < 4 * domain_size and 0 <= l <= r <= domain_size - 1, and neither the
\* "Node array was too small" panic, nor the "Recursive logic is bugged"
\* panic, nor the out-of-bounds return of INF_VAL occurs.
C8_DefensiveChecksUnreachable ==
    (built /\ (\/ last.op = "add_line" /\ last.line # NO_LINE
               \/ last.op = "query" /\ last.x \in Domain)) =>
        /\ last.panic \notin {"Node array was too small", "Recursive logic is bugged"}
        /\ ~last.oob
        /\ \A i \in 1..Len(last.trace) :
               LET f == last.trace[i]
               IN  f.v < 4 * domain_size /\ 0 <= f.l /\ f.l <= f.r
                   /\ f.r <= domain_size - 1

\* C9: endpoint pruning is sound: a call of add_line_internal that stops
\* because the carried line is better at neither endpoint carries a line that
\* is better nowhere on [l, r]; a call that recurses left carries a line that
\* is better nowhere on [m+1, r]; one that recurses right, nowhere on [l, m].
C9_PruningSound ==
    (built /\ last.op = "add_line") =>
        \A i \in 1..Len(last.trace) :
            LET f == last.trace[i]
                m == RangeMid(f.l, f.r)
            IN  /\ f.step = "prune" => NotBetterOn(f, f.l, f.r)
                /\ f.step = "left" => NotBetterOn(f, m + 1, f.r)
                /\ f.step = "right" => NotBetterOn(f, f.l, m)

\* C10: add_line and query visit at most ceil(log2(domain_size)) + 1 nodes:
\* each call after the first is on the child 2v+1 with [l, m] or the child
\* 2v+2 with [m+1, r] of the call before it, a strictly smaller range, and a
\* query that returns ends at a leaf of the path of its index.
C10_LogarithmicDescent ==
    last.op \in {"add_line", "query"} =>
        /\ Len(last.trace) <= CeilLog2(domain_size) + 1
        /\ \A i \in 1..(Len(last.trace) - 1) :
               LET f == last.trace[i]
                   g == last.trace[i + 1]
                   m == f.l + ((f.r - f.l) \div 2)
               IN  /\ \/ g.v = 2 * f.v + 1 /\ g.l = f.l /\ g.r = m
                      \/ g.v = 2 * f.v + 2 /\ g.l = m + 1 /\ g.r = f.r
                   /\ g.r - g.l < f.r - f.l
        /\ (last.op = "query" /\ last.panic = "") =>
               /\ last.trace # <<>>
               /\ last.trace[Len(last.trace)].l = last.trace[Len(last.trace)].r
               /\ last.trace[Len(last.trace)].l = last.x - x_min_coord

\* Reached: in a tree of three levels that holds MaxLines lines, one of them
\* carried down to a leaf by add_line, a query has read the three nodes of
\* its path.
C10_Witness ==
    /\ last.op = "query" /\ last.panic = ""
    /\ domain_size = 4 /\ Len(last.trace) = 3
    /\ Len(inserted) = MaxLines
    /\ \E v \in 3..6 : NodeAt(nodes, v) # NO_LINE

====
